---- MODULE Spec2Model ----
(***************************************************************************)
(* WeatherWise (streamlit_nasa_weather_app.py): the Streamlit script as a  *)
(* state machine.  One step is one execution of the script, started by one *)
(* interaction of the user with a widget the previous execution rendered.  *)
(*                                                                         *)
(* Numbers.  Physical values are kept exact, in hundredths of the unit     *)
(* (273.15 K is 27315).  A value of a data frame is the rational n/d kept  *)
(* as the record [n, d] (a mean over d grid cells keeps the sum n), and    *)
(* d = 0 is the float NaN.  Probabilities are rationals of the same shape. *)
(***************************************************************************)
EXTENDS Integers, Sequences, FiniteSets

VARIABLES page, rendered, widgets, cache, archive, outputs, runs

vars == <<page, rendered, widgets, cache, archive, outputs, runs>>

-----------------------------------------------------------------------------
(* Bounds of the model.                                                    *)

\* The number of timestamps on the time axis of the remote archive.
MaxTimes == 3

\* The number of executions of the dashboard branch in one session.
MaxRuns == 3

-----------------------------------------------------------------------------
(* Calendar: pandas' .dt.month and .dt.dayofyear, datetime's tm_yday.      *)

Date(y, m, d) == [y |-> y, m |-> m, d |-> d]

IsLeap(y) == (y % 4 = 0 /\ y % 100 # 0) \/ y % 400 = 0

DaysInMonth(y, m) ==
    IF m = 2 THEN (IF IsLeap(y) THEN 29 ELSE 28)
    ELSE IF m \in {4, 6, 9, 11} THEN 30 ELSE 31

RECURSIVE DaysBefore(_, _)
DaysBefore(y, m) == IF m = 1 THEN 0 ELSE DaysBefore(y, m - 1) + DaysInMonth(y, m - 1)

DayOfYear(t) == DaysBefore(t.y, t.m) + t.d

Month(t) == t.m

\* The days the model samples: day 60 of a leap year falls in February, day
\* 200 is seen in three years.
SampleDays ==
    << Date(2000, 2, 29), Date(2000, 7, 18), Date(2001, 7, 19), Date(2002, 7, 19) >>

\* datetime.today(), the default of the date picker.
Today == Date(2026, 11, 5)

\* The dates the user picks in st.sidebar.date_input.
TargetDates == {Today, Date(2026, 3, 1), Date(2026, 7, 19)}

-----------------------------------------------------------------------------
(* Values.                                                                 *)

NaN == [n |-> 0, d |-> 0]

Num(x) == [n |-> x, d |-> 1]

IsNaN(v) == v.d = 0

\* value - 273.15 on a float column; NaN - 273.15 is NaN.
KelvinOffset == 27315

-----------------------------------------------------------------------------
(* The dashboard's tables.                                                 *)

Pages == {"splash", "instructions", "dashboard"}

Conditions == <<"Very Hot", "Very Cold", "Very Wet", "Very Windy", "Very Uncomfortable">>

condition_thresholds(c) ==
    CASE c = "Very Hot" -> 30315
      [] c = "Very Cold" -> 27315
      [] c = "Very Wet" -> 1000
      [] c = "Very Windy" -> 1500
      [] c = "Very Uncomfortable" -> 3000

Seasons == <<"All year", "Winter", "Spring", "Summer", "Autumn">>

\* A slip to tell C6 by: every season one month early.
monthsOneEarly(s) ==
    CASE s = "Winter" -> {11, 12, 1}
      [] s = "Spring" -> {2, 3, 4}
      [] s = "Summer" -> {5, 6, 7}
      [] s = "Autumn" -> {8, 9, 10}

months(s) ==
    CASE s = "Winter" -> {12, 1, 2}
      [] s = "Spring" -> {3, 4, 5}
      [] s = "Summer" -> {6, 7, 8}
      [] s = "Autumn" -> {9, 10, 11}

MerraUrl == "goldsmr4/MERRA2_MONTHLY/M2TMNXRAD.5.12.4.nc4"
GldasUrl == "hydro1/GLDAS/GLDAS_NOAH025_3H.A202212.nc4"

\* The keys of DATASETS in the order of the dict, which is the order of the
\* options of the multiselect.  A description is kept as its words, so that
\* Python's case-sensitive test '"Temperature" in desc' is a test on the words.
DatasetKeys ==
    << "MERRA-2 Air Temperature (degC)", "MERRA-2 Precipitation (mm/day)",
       "GLDAS Air Temperature (degC)", "GLDAS Precipitation (mm/hr)" >>

DATASETS(k) ==
    CASE k = "MERRA-2 Air Temperature (degC)" ->
           [desc |-> <<"MERRA-2", "2D", "air", "temperature", "at", "2m", "above", "ground.">>,
            opendap_url |-> MerraUrl, var |-> "T2M", unit |-> "degC"]
      [] k = "MERRA-2 Precipitation (mm/day)" ->
           [desc |-> <<"MERRA-2", "total", "precipitation.">>,
            opendap_url |-> MerraUrl, var |-> "PRECTOT", unit |-> "mm/day"]
      [] k = "GLDAS Air Temperature (degC)" ->
           [desc |-> <<"GLDAS", "2D", "air", "temperature", "at", "2m", "above", "ground.">>,
            opendap_url |-> GldasUrl, var |-> "Tair_f_inst", unit |-> "degC"]
      [] k = "GLDAS Precipitation (mm/hr)" ->
           [desc |-> <<"GLDAS", "2D", "precipitation.">>,
            opendap_url |-> GldasUrl, var |-> "Rainf_f_inst", unit |-> "mm/hr"]

Units == {"degC", "mm/day", "mm/hr"}

Range(s) == {s[i] : i \in DOMAIN s}

\* "Temperature" in ds_info["desc"]
MentionsTemperature(ds_info) == "Temperature" \in Range(ds_info.desc)

-----------------------------------------------------------------------------
(* The remote archive: a grid over (time, lat, lon).  The contents are an  *)
(* input: one grid of levels is drawn, and the variable a dataset reads    *)
(* holds, in each cell, its own physical value for the cell's level.       *)

GridLats == <<0, 10>>
GridLons == <<0>>

Cells == {<<i, j>> : i \in DOMAIN GridLats, j \in DOMAIN GridLons}

Levels == {0, 1}

\* What the file holds: Kelvin for the temperatures (293.15, 303.15), and
\* 20, 30 mm for the precipitations.
SourceValue(ds_info, level) ==
    IF ds_info.var \in {"T2M", "Tair_f_inst"} THEN 29315 + 1000 * level
    ELSE 2000 + 1000 * level

RECURSIVE Ascending(_)
Ascending(s) ==
    Len(s) <= 1 \/ (DayOfYear(s[1]) + 366 * s[1].y < DayOfYear(s[2]) + 366 * s[2].y
                     /\ Ascending(Tail(s)))

\* The time axes: the ascending sequences of at most MaxTimes sample days.
RECURSIVE TimeAxes(_)
TimeAxes(n) ==
    IF n = 0 THEN {<<>>}
    ELSE LET shorter == TimeAxes(n - 1)
         IN  shorter \cup
             {Append(s, t) : s \in {x \in shorter : Len(x) = n - 1}, t \in Range(SampleDays)}

Archives ==
    UNION {[time : {axis}, level : [DOMAIN axis -> [Cells -> Levels]]] :
             axis \in {a \in TimeAxes(MaxTimes) : Len(a) >= 1 /\ Ascending(a)}}

-----------------------------------------------------------------------------
(* The map: folium's Draw plugin returns the last drawing as GeoJSON, a    *)
(* marker as a Point [lon, lat] and a rectangle or polygon as a Polygon    *)
(* whose first ring lists [lon, lat] corners.  Python's None is <<>>.      *)

None == <<>>

NoDrawing == [type |-> "none", coordinates |-> <<>>]

Marker(lon, lat) == [type |-> "Point", coordinates |-> <<lon, lat>>]

Rectangle(lon_min, lat_min, lon_max, lat_max) ==
    [type |-> "Polygon",
     coordinates |-> << << <<lon_min, lat_min>>, <<lon_min, lat_max>>,
                           <<lon_max, lat_max>>, <<lon_max, lat_min>>,
                           <<lon_min, lat_min>> >> >>]

\* The drawings the user makes: a marker nearest the northern grid cell, a
\* box over both grid cells, a box over the northern cell alone, a box over
\* no cell.
Drawings ==
    {NoDrawing, Marker(1, 7),
     Rectangle(-5, -5, 5, 15), Rectangle(-5, 5, 5, 15), Rectangle(-5, 20, 5, 30)}

Min(S) == CHOOSE x \in S : \A y \in S : x <= y
Max(S) == CHOOSE x \in S : \A y \in S : x >= y

\* coords, bbox of lines 140-148.
Location(drawing) ==
    IF drawing.type = "Point"
    THEN [coords |-> <<drawing.coordinates[2], drawing.coordinates[1]>>, bbox |-> None]
    ELSE IF drawing.type \in {"Polygon", "Rectangle"}
    THEN LET ring == drawing.coordinates[1]
             lats == {ring[i][2] : i \in DOMAIN ring}
             lons == {ring[i][1] : i \in DOMAIN ring}
         IN  [coords |-> None, bbox |-> <<Min(lats), Max(lats), Min(lons), Max(lons)>>]
    ELSE [coords |-> None, bbox |-> None]

-----------------------------------------------------------------------------
(* load_opendap_data.                                                      *)

Abs(x) == IF x < 0 THEN -x ELSE x

\* .sel(..., method="nearest") on one axis: the index of the nearest label,
\* a tie going to the larger label (pandas' get_indexer).
Nearest(axis, q) ==
    CHOOSE i \in DOMAIN axis :
        \A j \in DOMAIN axis :
            \/ Abs(axis[i] - q) < Abs(axis[j] - q)
            \/ (Abs(axis[i] - q) = Abs(axis[j] - q) /\ axis[i] >= axis[j])

\* .sel(axis=slice(lo, hi)): the labels within the inclusive bounds.
Slice(axis, lo, hi) == {i \in DOMAIN axis : lo <= axis[i] /\ axis[i] <= hi}

RECURSIVE SumOver(_, _)
SumOver(S, f) ==
    IF S = {} THEN 0
    ELSE LET x == CHOOSE y \in S : TRUE IN f[x] + SumOver(S \ {x}, f)

\* A slip to tell C4 by: .max(dim=["lat", "lon"]), under which a timestamp
\* exceeds as soon as one cell of the box does.
SpatialMax(S, values) ==
    IF S = {} THEN NaN ELSE [n |-> Max({values[c] : c \in S}), d |-> 1]

\* .mean(dim=["lat", "lon"]) of one timestamp over the cells in S: the sum
\* over the count, NaN over no cell.
SpatialMean(S, values) ==
    IF S = {} THEN NaN ELSE [n |-> SumOver(S, values), d |-> Cardinality(S)]

\* The cells lines 156-162 keep.
SelectedCells(coords, bbox) ==
    IF coords # None
    THEN {<<Nearest(GridLats, coords[1]), Nearest(GridLons, coords[2])>>}
    ELSE IF bbox # None
    THEN {c \in Cells : /\ c[1] \in Slice(GridLats, bbox[1], bbox[2])
                        /\ c[2] \in Slice(GridLons, bbox[3], bbox[4])}
    ELSE Cells

\* df["value"] - 273.15
Minus(v, x) == IF IsNaN(v) THEN NaN ELSE [n |-> v.n - x * v.d, d |-> v.d]

\* The try branch, lines 154-168: one row per timestamp.
ReadArchive(grid, ds_info, coords, bbox) ==
    LET S == SelectedCells(coords, bbox)
        data(i) == SpatialMean(S, [c \in Cells |-> SourceValue(ds_info, grid.level[i][c])])
        value(i) == IF MentionsTemperature(ds_info) THEN Minus(data(i), KelvinOffset)
                    ELSE data(i)
    IN  [i \in DOMAIN grid.time |->
            [time |-> grid.time[i], value |-> value(i), doy |-> DayOfYear(grid.time[i])]]

\* The days of pd.date_range("2000-01-01", "2020-12-31") the model samples;
\* every day of the year has rows in the fallback series.
DemoDays ==
    << Date(2000, 2, 29), Date(2000, 7, 18), Date(2000, 11, 4), Date(2001, 7, 19) >>

\* The draws of np.random.normal under seed 42 stand in hundredths of a
\* standard deviation (0.50, -0.14, ...); which draw meets which day is not
\* modelled.
DemoNoise == <<50, -14, 65, 152, -23, -23, 158>>

\* The except branch, lines 170-177.
DemoData(ds_info) ==
    LET base == IF MentionsTemperature(ds_info) THEN 25 ELSE 5
        scale == IF MentionsTemperature(ds_info) THEN 5 ELSE 2
    IN  [i \in DOMAIN DemoDays |->
            [time |-> DemoDays[i], value |-> Num(100 * base + scale * DemoNoise[i]),
             doy |-> DayOfYear(DemoDays[i])]]

\* The body of load_opendap_data; ok tells whether every remote read of the
\* try branch went through.
load_opendap_data(grid, ds_info, coords, bbox, ok) ==
    IF ok THEN [source |-> "archive", df |-> ReadArchive(grid, ds_info, coords, bbox)]
    ELSE [source |-> "demo", df |-> DemoData(ds_info)]

-----------------------------------------------------------------------------
(* The analysis of one variable, lines 187-208.                            *)

\* A slip to tell C3 by: value >= threshold.
ExceedsOrEquals(v, threshold) == ~IsNaN(v) /\ v.n >= threshold * v.d

\* value > threshold on floats: False on NaN.
Exceeds(v, threshold) == ~IsNaN(v) /\ v.n > threshold * v.d

\* Lines 188-190.
default_thresh(weather_condition, ds_info) ==
    IF ds_info.unit = "degC" THEN condition_thresholds(weather_condition) - KelvinOffset
    ELSE condition_thresholds(weather_condition)

\* Lines 194-196.
SeasonFilter(df, season) ==
    IF season # "All year"
    THEN LET Keep(r) == Month(r.time) \in months(season) IN SelectSeq(df, Keep)
    ELSE df

\* df[df["doy"] == day_of_year]
DaySubset(df, day_of_year) ==
    LET Keep(r) == r.doy = day_of_year IN SelectSeq(df, Keep)

\* (rows["value"] > threshold).mean() * 100: NaN over no row.
ExceedancePercent(rows, threshold) ==
    IF Len(rows) = 0 THEN NaN
    ELSE [n |-> 100 * Cardinality({i \in DOMAIN rows : Exceeds(rows[i].value, threshold)}),
          d |-> Len(rows)]

\* f"{prob:.1f}%": the tenths of a percent, a tie rounded to even; "nan%"
\* for NaN.
Format1(prob) ==
    IF IsNaN(prob) THEN [nan |-> TRUE, tenths |-> 0]
    ELSE LET q == (10 * prob.n) \div prob.d
             r == (10 * prob.n) % prob.d
             up == 2 * r > prob.d \/ (2 * r = prob.d /\ q % 2 = 1)
         IN  [nan |-> FALSE, tenths |-> IF up THEN q + 1 ELSE q]

\* A slip to tell C7 by: the curve reindexed over the whole year, a day
\* without rows at 0%.
ProbabilityCurveFilled(df, threshold) ==
    [k \in 1..366 |->
        IF \E i \in DOMAIN df : df[i].doy = k
        THEN ExceedancePercent(DaySubset(df, k), threshold)
        ELSE [n |-> 0, d |-> 1]]

\* df.groupby("doy").apply(lambda g: (g["value"] > threshold).mean() * 100)
ProbabilityCurve(df, threshold) ==
    [k \in {df[i].doy : i \in DOMAIN df} |-> ExceedancePercent(DaySubset(df, k), threshold)]

-----------------------------------------------------------------------------
(* Widgets.  Streamlit keeps the value of a widget between executions as   *)
(* long as every execution renders it, and forgets it otherwise.           *)

\* The values a user types into a threshold box, beside its default.
ThresholdEdits == {2500}

\* The values of the sidebar and of the map on the first rendering of the
\* dashboard, lines 85-99, 129 and 140; edits holds the threshold boxes the
\* user has typed into, by unit.
DefaultWidgets ==
    [weather_condition |-> Conditions[1], season |-> Seasons[1], selected_date |-> Today,
     selected_vars |-> DatasetKeys, drawing |-> NoDrawing, edits |-> <<>>]

\* st.sidebar.number_input(label, value=float(default_thresh))
number_input(edits, ds_info, default) ==
    IF ds_info.unit \in DOMAIN edits THEN edits[ds_info.unit] ELSE default

\* What identifies the threshold box of line 191, which is given no key: its
\* label and its default.
ThresholdBox(weather_condition, ds_info) ==
    <<weather_condition, ds_info.unit, default_thresh(weather_condition, ds_info)>>

\* The variables whose loop body completes: a second variable of the same
\* unit asks for a box identical to one the execution has rendered,
\* Streamlit raises DuplicateWidgetID and the execution ends there.
RECURSIVE Completed(_, _, _)
Completed(selected_vars, weather_condition, seen) ==
    IF selected_vars = <<>> THEN <<>>
    ELSE LET box == ThresholdBox(weather_condition, DATASETS(Head(selected_vars)))
         IN  IF box \in seen THEN <<>>
             ELSE <<Head(selected_vars)>>
                  \o Completed(Tail(selected_vars), weather_condition, seen \cup {box})

\* The arguments st.cache_data hashes.
CacheKey(var_key, loc) == <<var_key, loc.coords, loc.bbox>>

\* A slip to tell C9 by: the cache hands out the stored frame itself and the
\* season filter drops its rows in place.
StoredFrameFiltered(loaded, filtered) == filtered

\* What the cache holds for a key after a query has used it: st.cache_data
\* hands every caller its own copy of the stored frame, and line 196 binds
\* df to a new frame, so the stored frame stays the loaded one.
StoredFrame(loaded, filtered) == loaded

\* One pass of the loop body, lines 183-208, on the frame the loader (or
\* the cache) returned.
Analyse(var_key, w, loaded) ==
    LET ds_info == DATASETS(var_key)
        threshold == number_input(w.edits, ds_info,
                                  default_thresh(w.weather_condition, ds_info))
        df == SeasonFilter(loaded.df, w.season)
        subset == DaySubset(df, DayOfYear(w.selected_date))
        prob == ExceedancePercent(subset, threshold)
    IN  [var_key |-> var_key, threshold |-> threshold, source |-> loaded.source,
         cached |-> loaded.cached, rows |-> df, size |-> Len(subset), prob |-> prob,
         element |-> "metric", metric |-> Format1(prob),
         curve |-> ProbabilityCurve(df, threshold)]

NoOutputs == [results |-> <<>>, error |-> FALSE]

-----------------------------------------------------------------------------
(* One execution of the script.  pressed is the label of the button the    *)
(* user pressed ("none" for another interaction), w the widget values the  *)
(* browser sends along.  A button is identified by its label, so the press *)
(* of "Go Back" reaches whichever branch runs.                             *)

\* A slip to tell C10 by: the splash button opens the dashboard.
SplashToDashboard(pressed) ==
    /\ page = "splash"
    /\ page' = IF pressed = "check" THEN "dashboard" ELSE page
    /\ rendered' = "splash"
    /\ widgets' = DefaultWidgets
    /\ outputs' = NoOutputs
    /\ UNCHANGED <<cache, archive, runs>>

Splash(pressed) ==
    /\ page = "splash"
    /\ page' = IF pressed = "check" THEN "instructions" ELSE page
    /\ rendered' = "splash"
    /\ widgets' = DefaultWidgets
    /\ outputs' = NoOutputs
    /\ UNCHANGED <<cache, archive, runs>>

Instructions(pressed) ==
    /\ page = "instructions"
    /\ page' = IF pressed = "goback" THEN "splash"
               ELSE IF pressed = "dashboard" THEN "dashboard" ELSE page
    /\ rendered' = "instructions"
    /\ widgets' = DefaultWidgets
    /\ outputs' = NoOutputs
    /\ UNCHANGED <<cache, archive, runs>>

Dashboard(pressed, w) ==
    /\ page = "dashboard"
    /\ runs < MaxRuns
    /\ runs' = runs + 1
    /\ page' = IF pressed = "goback" THEN "instructions" ELSE page
    /\ rendered' = "dashboard"
    /\ LET loc == Location(w.drawing)
           done == Completed(w.selected_vars, w.weather_condition, {})
           key(v) == CacheKey(v, loc)
           misses == {v \in Range(done) : key(v) \notin DOMAIN cache}
       IN  \E ok \in [misses -> BOOLEAN] :
             LET call(v) ==
                     IF v \in misses
                     THEN load_opendap_data(archive, DATASETS(v), loc.coords, loc.bbox, ok[v])
                     ELSE cache[key(v)]
                 loaded == [i \in DOMAIN done |->
                              [source |-> call(done[i]).source, df |-> call(done[i]).df,
                               cached |-> done[i] \notin misses]]
                 results == [i \in DOMAIN done |-> Analyse(done[i], w, loaded[i])]
             IN  /\ outputs' = [results |-> results,
                                error |-> Len(done) < Len(w.selected_vars)]
                 /\ cache' = [k \in DOMAIN cache \cup {key(v) : v \in Range(done)} |->
                                IF \E i \in DOMAIN done : key(done[i]) = k
                                THEN LET i == CHOOSE j \in DOMAIN done : key(done[j]) = k
                                     IN  [source |-> loaded[i].source,
                                          df |-> StoredFrame(loaded[i].df, results[i].rows)]
                                ELSE cache[k]]
                 /\ widgets' = [w EXCEPT !.edits =
                                  [u \in DOMAIN w.edits \cap {DATASETS(v).unit : v \in Range(done)}
                                     |-> w.edits[u]]]
    /\ UNCHANGED archive

Script(pressed, w) == Splash(pressed) \/ Instructions(pressed) \/ Dashboard(pressed, w)

-----------------------------------------------------------------------------
(* The interactions.                                                       *)

\* One interaction with the multiselect: an option is added at the end of
\* the selection, an option is removed, or the selection is cleared.
Without(sel, k) == LET Keep(x) == x # k IN SelectSeq(sel, Keep)

MultiselectMoves(sel) ==
    {Append(sel, k) : k \in Range(DatasetKeys) \ Range(sel)}
        \cup {Without(sel, k) : k \in Range(sel)}
        \cup {<<>>}

PressCheck == rendered = "splash" /\ Script("check", widgets)

PressGoBack == rendered \in {"instructions", "dashboard"} /\ Script("goback", widgets)

PressGoToDashboard == rendered = "instructions" /\ Script("dashboard", widgets)

SelectCondition ==
    /\ rendered = "dashboard"
    /\ \E c \in Range(Conditions) :
         /\ c # widgets.weather_condition
         /\ Script("none", [widgets EXCEPT !.weather_condition = c, !.edits = <<>>])

SelectSeason ==
    /\ rendered = "dashboard"
    /\ \E s \in Range(Seasons) :
         s # widgets.season /\ Script("none", [widgets EXCEPT !.season = s])

SelectDate ==
    /\ rendered = "dashboard"
    /\ \E t \in TargetDates :
         t # widgets.selected_date /\ Script("none", [widgets EXCEPT !.selected_date = t])

SelectVariables ==
    /\ rendered = "dashboard"
    /\ \E sel \in MultiselectMoves(widgets.selected_vars) :
         sel # widgets.selected_vars /\ Script("none", [widgets EXCEPT !.selected_vars = sel])

Draw ==
    /\ rendered = "dashboard"
    /\ \E g \in Drawings :
         g # widgets.drawing /\ Script("none", [widgets EXCEPT !.drawing = g])

\* Typing into a threshold box the last execution rendered.
EditThreshold ==
    /\ rendered = "dashboard"
    /\ \E i \in DOMAIN outputs.results, x \in ThresholdEdits :
         LET unit == DATASETS(outputs.results[i].var_key).unit
         IN  Script("none", [widgets EXCEPT !.edits =
                               [u \in DOMAIN widgets.edits \cup {unit} |->
                                  IF u = unit THEN x ELSE widgets.edits[u]]])

\* "Rerun" of Streamlit's menu, or moving the map: no widget changes.
Rerun == Script("none", widgets)

-----------------------------------------------------------------------------
(* The session, from its first execution on.                               *)

\* The archive of the sessions: one time axis over two seasons, the southern
\* cells at the lower level and the northern ones at the upper level
\* throughout.
SessionAxis == <<Date(2000, 2, 29), Date(2000, 7, 18), Date(2001, 7, 19)>>

SessionArchives ==
    {a \in Archives : /\ a.time = SessionAxis
                      /\ \A i \in DOMAIN a.time : a.level[i] = a.level[1]
                      /\ a.level[1] = [c \in Cells |-> c[1] - 1]}

Init ==
    /\ page = "splash"
    /\ rendered = "splash"
    /\ widgets = DefaultWidgets
    /\ cache = <<>>
    /\ outputs = NoOutputs
    /\ runs = 0
    /\ archive \in SessionArchives

Next ==
    \/ PressCheck
    \/ PressGoBack
    \/ PressGoToDashboard
    \/ SelectCondition
    \/ SelectSeason
    \/ SelectDate
    \/ SelectVariables
    \/ Draw
    \/ EditThreshold
    \/ Rerun

Spec == Init /\ [][Next]_vars

-----------------------------------------------------------------------------
(* One query on a cold cache: the dashboard is on screen, the sidebar and  *)
(* the map hold any values, the archive any contents, and the script runs  *)
(* once.                                                                   *)

SingleSelections == {<<k>> : k \in Range(DatasetKeys)}

EditChoices == {<<>>} \cup {[u \in Units |-> x] : x \in ThresholdEdits}

Queries ==
    [weather_condition : Range(Conditions), season : Range(Seasons),
     selected_date : TargetDates, selected_vars : SingleSelections,
     drawing : Drawings, edits : EditChoices]

\* The queries met with every archive; the others are met with the
\* archives of the sessions.
CoreQueries ==
    {q \in Queries : /\ q.weather_condition = "Very Uncomfortable"
                     /\ q.drawing \in {NoDrawing, Marker(1, 7), Rectangle(-5, -5, 5, 15)}}

InitEngine ==
    /\ page = "dashboard"
    /\ rendered = "dashboard"
    /\ cache = <<>>
    /\ outputs = NoOutputs
    /\ runs = 0
    /\ \/ archive \in Archives /\ widgets \in CoreQueries
       \/ archive \in SessionArchives /\ widgets \in Queries

FirstRun == runs = 0 /\ Rerun

NextEngine == FirstRun

SpecEngine == InitEngine /\ [][NextEngine]_vars

-----------------------------------------------------------------------------
(* The claims.  What a result should be is written out here from the rows, *)
(* the widgets and the archive, without the operators of the analysis.     *)

Results == Range(outputs.results)

\* The cached frame a result was computed from.
FrameOf(r) == cache[CacheKey(r.var_key, Location(widgets.drawing))].df

\* The rows of the target day, and among rows J those above the threshold.
DayRows(r) == {j \in DOMAIN r.rows : r.rows[j].doy = DayOfYear(widgets.selected_date)}

Above(r, J) ==
    {j \in J : /\ r.rows[j].value.d > 0
               /\ r.rows[j].value.n > r.threshold * r.rows[j].value.d}

\* p is the percentage of a among n.
IsPercent(p, a, n) == p.d > 0 /\ p.n * n = 100 * a * p.d

SeasonMonthSet(season) ==
    CASE season = "All year" -> 1..12
      [] season = "Winter" -> {12, 1, 2}
      [] season = "Spring" -> {3, 4, 5}
      [] season = "Summer" -> {6, 7, 8}
      [] season = "Autumn" -> {9, 10, 11}

\* C1: whenever no season-filtered record falls on the target day of the
\* year, the result of the variable is an explicit "no data" outcome and
\* not a probability metric.
C1_EmptySubsetIsNoData ==
    \A r \in Results : DayRows(r) = {} => r.element = "no data"

\* C2: a variable whose load failed is skipped: no result (probability,
\* curve) is computed for it from substitute data.
C2_FailedLoadIsSkipped ==
    \A r \in Results : r.source # "demo"

\* C3: for a non-empty single-day subset the probability is 100 times the
\* number of rows strictly above the threshold over the number of rows, and
\* the metric shows it to one decimal.
C3_SingleDayProbability ==
    \A r \in Results :
        LET day == DayRows(r)
            n == Cardinality(day)
            a == Cardinality(Above(r, day))
        IN  day # {} =>
              /\ IsPercent(r.prob, a, n)
              /\ ~r.metric.nan
              /\ 2 * (1000 * a - r.metric.tenths * n) <= n
              /\ 2 * (r.metric.tenths * n - 1000 * a) <= n

\* C3's case: two of three rows of the day exceed, the third equals the
\* threshold, and the metric reads 66.7%.
C3_Witness ==
    \E r \in Results :
        /\ Cardinality(DayRows(r)) = 3
        /\ Cardinality(Above(r, DayRows(r))) = 2
        /\ \E j \in DayRows(r) : r.rows[j].value.d > 0
                                  /\ r.rows[j].value.n = r.threshold * r.rows[j].value.d
        /\ r.metric = [nan |-> FALSE, tenths |-> 667]

\* The grid cells inside the drawn box, and the archive's timestamp of a row.
BoxCells ==
    LET ring == widgets.drawing.coordinates[1]
    IN  {c \in Cells :
           /\ \E i \in DOMAIN ring : ring[i][2] <= GridLats[c[1]]
           /\ \E i \in DOMAIN ring : ring[i][2] >= GridLats[c[1]]
           /\ \E i \in DOMAIN ring : ring[i][1] <= GridLons[c[2]]
           /\ \E i \in DOMAIN ring : ring[i][1] >= GridLons[c[2]]}

TimeIndex(t) == CHOOSE i \in DOMAIN archive.time : archive.time[i] = t

\* The sum over the box of what the file holds at the timestamp of a row.
BoxSum(r, row) ==
    LET lv == archive.level[TimeIndex(row.time)]
    IN  SumOver(BoxCells, [c \in Cells |-> SourceValue(DATASETS(r.var_key), lv[c])])

\* C4: with a box drawn, the value of a timestamp is the mean of the cells
\* in the box, and a timestamp counts as an exceedance exactly when that
\* mean is strictly above the threshold.
C4_MeanThenThreshold ==
    \A r \in Results :
        (widgets.drawing.type = "Polygon" /\ r.source = "archive" /\ BoxCells # {}) =>
            LET n == Cardinality(BoxCells)
                day == DayRows(r)
                over == {j \in day : BoxSum(r, r.rows[j]) > r.threshold * n}
            IN  /\ \A j \in DOMAIN r.rows :
                       r.rows[j].value.d > 0
                       /\ r.rows[j].value.n * n = BoxSum(r, r.rows[j]) * r.rows[j].value.d
                /\ day # {} => IsPercent(r.prob, Cardinality(over), Cardinality(day))

\* C4's case: the two cells of the box hold 20 and 30, the threshold is 25,
\* and the only timestamp of the day counts as a non-exceedance.
C4_Witness ==
    \E r \in Results :
        /\ widgets.drawing.type = "Polygon" /\ r.source = "archive"
        /\ Cardinality(BoxCells) = 2
        /\ r.threshold = 2500
        /\ Cardinality(DayRows(r)) = 1
        /\ \A j \in DayRows(r) :
              {SourceValue(DATASETS(r.var_key), archive.level[TimeIndex(r.rows[j].time)][c]) :
                 c \in BoxCells} = {2000, 3000}
        /\ r.prob.d > 0 /\ r.prob.n = 0

\* The threshold of a temperature condition in Kelvin, the unit of the
\* temperature archives.
KelvinThreshold(c) ==
    CASE c = "Very Hot" -> 30315
      [] c = "Very Cold" -> 27315
      [] c = "Very Uncomfortable" -> 3000 + 27315

\* C5: for a temperature archive, which holds Kelvin, the loaded values are
\* the values of the file and the threshold they are compared with is the
\* condition's threshold in Kelvin.
C5_NativeUnitComparison ==
    \A r \in Results :
        (/\ r.source = "archive"
         /\ DATASETS(r.var_key).var \in {"T2M", "Tair_f_inst"}
         /\ widgets.weather_condition \in {"Very Hot", "Very Cold", "Very Uncomfortable"}
         /\ DATASETS(r.var_key).unit \notin DOMAIN widgets.edits) =>
            /\ \A i \in DOMAIN FrameOf(r) :
                   LET v == FrameOf(r)[i].value
                   IN  29315 * v.d <= v.n /\ v.n <= 30315 * v.d
            /\ r.threshold = KelvinThreshold(widgets.weather_condition)

\* C6: the filtered rows are exactly the loaded rows whose month is in the
\* season's month set, each once; under All year they are the loaded rows.
C6_SeasonFilter ==
    \A r \in Results :
        LET df == FrameOf(r)
            kept == {i \in DOMAIN df : Month(df[i].time) \in SeasonMonthSet(widgets.season)}
        IN  /\ Range(r.rows) = {df[i] : i \in kept}
            /\ Len(r.rows) = Cardinality(kept)
            /\ widgets.season = "All year" => r.rows = df

\* C6's case: Winter keeps some loaded rows and drops others.
C6_Witness ==
    \E r \in Results :
        /\ widgets.season = "Winter"
        /\ r.source = "archive"
        /\ 0 < Len(r.rows) /\ Len(r.rows) < Len(FrameOf(r))

\* C7: the curve is defined on exactly the days of the year the filtered
\* rows hold, and its value on a day is the strict-exceedance percentage
\* over the rows of that day.
C7_CurveDays ==
    \A r \in Results :
        /\ DOMAIN r.curve = {r.rows[j].doy : j \in DOMAIN r.rows}
        /\ \A k \in DOMAIN r.curve :
              LET rows == {j \in DOMAIN r.rows : r.rows[j].doy = k}
              IN  IsPercent(r.curve[k], Cardinality(Above(r, rows)), Cardinality(rows))

\* C7's case: the loaded frame has rows on day 60 and on day 200, Summer
\* leaves the curve day 200 alone, with a value strictly between 0 and 100.
C7_Witness ==
    \E r \in Results :
        /\ widgets.season = "Summer"
        /\ {FrameOf(r)[i].doy : i \in DOMAIN FrameOf(r)} = {60, 200}
        /\ DOMAIN r.curve = {200}
        /\ 0 < r.curve[200].n /\ r.curve[200].n < 100 * r.curve[200].d

InPercentRange(p) == p.d > 0 /\ 0 <= p.n /\ p.n <= 100 * p.d

\* C8: every probability computed and reported, the single-day one and every
\* value of the curve, is a number between 0 and 100.
C8_ProbabilityRange ==
    \A r \in Results :
        /\ InPercentRange(r.prob)
        /\ \A k \in DOMAIN r.curve : InPercentRange(r.curve[k])

\* The timestamps a source delivers.
SourceTimes(source) == IF source = "archive" THEN Range(archive.time) ELSE Range(DemoDays)

\* C9: a query never changes a cached record set, and a cached record set
\* holds every timestamp its source delivered, whatever the season of the
\* query that loaded it.
C9_CacheUntouched ==
    [][\A k \in DOMAIN cache' :
          /\ k \in DOMAIN cache => cache'[k] = cache[k]
          /\ {cache'[k].df[i].time : i \in DOMAIN cache'[k].df} = SourceTimes(cache'[k].source)
       /\ DOMAIN cache \subseteq DOMAIN cache']_vars

\* C9's case: a Winter query served from the cache drops rows, and the
\* cached frame still holds the rows of the other months.
C9_Witness ==
    \E r \in Results :
        /\ r.cached
        /\ widgets.season = "Winter"
        /\ Len(r.rows) < Len(FrameOf(r))
        /\ \E i \in DOMAIN FrameOf(r) : Month(FrameOf(r)[i].time) \notin {12, 1, 2}

Adjacent(p, q) ==
    \/ p = q
    \/ {p, q} = {"splash", "instructions"}
    \/ {p, q} = {"instructions", "dashboard"}

\* C10: the page starts as splash, is always one of the three pages, and
\* every change of page goes between neighbours of the order splash,
\* instructions, dashboard.
C10_PageNavigation ==
    /\ page = "splash"
    /\ [](page \in Pages)
    /\ [][Adjacent(page, page')]_vars

\* C10's case: Go Back was pressed on the dashboard.
C10_Witness == page = "instructions" /\ rendered = "dashboard"

====
